---- MODULE Spec2Model ----
(***************************************************************************)
(* mcp-mysql: the MCP server of src/main.py (is_safe_query, query_data,    *)
(* the schema and tables resources) and the schema cache of the            *)
(* NLtoSQLConverter client of src/test.py.                                 *)
(*                                                                         *)
(* A SQL string is a sequence of Unicode code points, so that lower(),     *)
(* strip(), startswith() and the substring test are computed as Python     *)
(* computes them.  The MySQLdb driver and the MCP session are outside the  *)
(* repository: every call into them either succeeds or raises, chosen      *)
(* nondeterministically.                                                   *)
(***************************************************************************)
EXTENDS Integers, Sequences, FiniteSets, TLC

VARIABLES
    op,           \* server: the handler that is running ("none" between calls)
    pc,           \* server: position inside the handler
    sql,          \* server: query_data's argument
    safe,         \* server: what is_safe_query answered in this call
    conn,         \* server: the local conn: "none" | "open" | "closed"
    cursor,       \* server: the local cursor: "none" (None) | "open" | "closed"
    txn,          \* database: transaction state of the connection
    dirty,        \* database: the open transaction holds an uncommitted write
    log,          \* database: the driver calls made on the connection, in order
    rows,         \* server: what fetchall returned
    caught,       \* server: the exception bound to e in the except clause
    todo,         \* server: get_schema's table_names still to describe
    schema,       \* server: get_schema's schema dictionary (tables described)
    pending,      \* server: the return value / exception travelling through finally
    result,       \* server: how the call ended
    openConns,    \* database: connections currently open
    dbData,       \* database: committed data (a version number)
    dbBefore,     \* database: dbData when the running call started
    schema_cache, \* client: NLtoSQLConverter.schema_cache
    co,           \* client: the coroutines running get_schema / generate_sql
    firstRet      \* client: per identifier, what the first get_schema to return gave

serverVars == <<op, pc, sql, safe, conn, cursor, txn, dirty, log, rows, caught,
                todo, schema, pending, result, openConns, dbData, dbBefore>>
clientVars == <<schema_cache, co, firstRet>>
vars == <<serverVars, clientVars>>

----------------------------------------------------------------------------
(* Bounds *)

MaxFrags == 3      \* a SQL input is the concatenation of at most MaxFrags fragments
MaxRows == 2       \* fetchall returns at most MaxRows rows
MaxTables == 2     \* SHOW TABLES lists at most MaxTables tables
MaxConns == 1      \* the database accepts at most MaxConns open connections
NumCoros == 2      \* client coroutines that may run concurrently

----------------------------------------------------------------------------
(* Strings *)

\* A character is its Unicode code point; a string is a sequence of them.  The
\* tables are those of the Unicode database (14.0.0) that str.lower() and
\* str.strip() consult.

\* The characters c with c.isspace(), which str.strip() removes.
Whitespace ==
    {9, 10, 11, 12, 13, 28, 29, 30, 31, 32, 133, 160, 5760} \cup (8192..8202)
        \cup {8232, 8233, 8239, 8287, 12288}

\* The lowercase mapping outside ASCII: <<first, last, step, delta>> says that
\* first, first + step, ..., last each go to themselves plus delta.
LowerRanges == <<
    <<192, 214, 1, 32>>, <<216, 222, 1, 32>>, <<256, 302, 2, 1>>, <<306, 310, 2, 1>>,
    <<313, 327, 2, 1>>, <<330, 374, 2, 1>>, <<376, 376, 1, -121>>, <<377, 381, 2, 1>>,
    <<385, 385, 1, 210>>, <<386, 388, 2, 1>>, <<390, 390, 1, 206>>, <<391, 391, 1, 1>>,
    <<393, 394, 1, 205>>, <<395, 395, 1, 1>>, <<398, 398, 1, 79>>, <<399, 399, 1, 202>>,
    <<400, 400, 1, 203>>, <<401, 401, 1, 1>>, <<403, 403, 1, 205>>, <<404, 404, 1, 207>>,
    <<406, 406, 1, 211>>, <<407, 407, 1, 209>>, <<408, 408, 1, 1>>, <<412, 412, 1, 211>>,
    <<413, 413, 1, 213>>, <<415, 415, 1, 214>>, <<416, 420, 2, 1>>, <<422, 422, 1, 218>>,
    <<423, 423, 1, 1>>, <<425, 425, 1, 218>>, <<428, 428, 1, 1>>, <<430, 430, 1, 218>>,
    <<431, 431, 1, 1>>, <<433, 434, 1, 217>>, <<435, 437, 2, 1>>, <<439, 439, 1, 219>>,
    <<440, 440, 1, 1>>, <<444, 444, 1, 1>>, <<452, 452, 1, 2>>, <<453, 453, 1, 1>>,
    <<455, 455, 1, 2>>, <<456, 456, 1, 1>>, <<458, 458, 1, 2>>, <<459, 475, 2, 1>>,
    <<478, 494, 2, 1>>, <<497, 497, 1, 2>>, <<498, 500, 2, 1>>, <<502, 502, 1, -97>>,
    <<503, 503, 1, -56>>, <<504, 542, 2, 1>>, <<544, 544, 1, -130>>, <<546, 562, 2, 1>>,
    <<570, 570, 1, 10795>>, <<571, 571, 1, 1>>, <<573, 573, 1, -163>>, <<574, 574, 1, 10792>>,
    <<577, 577, 1, 1>>, <<579, 579, 1, -195>>, <<580, 580, 1, 69>>, <<581, 581, 1, 71>>,
    <<582, 590, 2, 1>>, <<880, 882, 2, 1>>, <<886, 886, 1, 1>>, <<895, 895, 1, 116>>,
    <<902, 902, 1, 38>>, <<904, 906, 1, 37>>, <<908, 908, 1, 64>>, <<910, 911, 1, 63>>,
    <<913, 929, 1, 32>>, <<932, 939, 1, 32>>, <<975, 975, 1, 8>>, <<984, 1006, 2, 1>>,
    <<1012, 1012, 1, -60>>, <<1015, 1015, 1, 1>>, <<1017, 1017, 1, -7>>, <<1018, 1018, 1, 1>>,
    <<1021, 1023, 1, -130>>, <<1024, 1039, 1, 80>>, <<1040, 1071, 1, 32>>, <<1120, 1152, 2, 1>>,
    <<1162, 1214, 2, 1>>, <<1216, 1216, 1, 15>>, <<1217, 1229, 2, 1>>, <<1232, 1326, 2, 1>>,
    <<1329, 1366, 1, 48>>, <<4256, 4293, 1, 7264>>, <<4295, 4295, 1, 7264>>, <<4301, 4301, 1, 7264>>,
    <<5024, 5103, 1, 38864>>, <<5104, 5109, 1, 8>>, <<7312, 7354, 1, -3008>>, <<7357, 7359, 1, -3008>>,
    <<7680, 7828, 2, 1>>, <<7838, 7838, 1, -7615>>, <<7840, 7934, 2, 1>>, <<7944, 7951, 1, -8>>,
    <<7960, 7965, 1, -8>>, <<7976, 7983, 1, -8>>, <<7992, 7999, 1, -8>>, <<8008, 8013, 1, -8>>,
    <<8025, 8031, 2, -8>>, <<8040, 8047, 1, -8>>, <<8072, 8079, 1, -8>>, <<8088, 8095, 1, -8>>,
    <<8104, 8111, 1, -8>>, <<8120, 8121, 1, -8>>, <<8122, 8123, 1, -74>>, <<8124, 8124, 1, -9>>,
    <<8136, 8139, 1, -86>>, <<8140, 8140, 1, -9>>, <<8152, 8153, 1, -8>>, <<8154, 8155, 1, -100>>,
    <<8168, 8169, 1, -8>>, <<8170, 8171, 1, -112>>, <<8172, 8172, 1, -7>>, <<8184, 8185, 1, -128>>,
    <<8186, 8187, 1, -126>>, <<8188, 8188, 1, -9>>, <<8486, 8486, 1, -7517>>, <<8490, 8490, 1, -8383>>,
    <<8491, 8491, 1, -8262>>, <<8498, 8498, 1, 28>>, <<8544, 8559, 1, 16>>, <<8579, 8579, 1, 1>>,
    <<9398, 9423, 1, 26>>, <<11264, 11311, 1, 48>>, <<11360, 11360, 1, 1>>, <<11362, 11362, 1, -10743>>,
    <<11363, 11363, 1, -3814>>, <<11364, 11364, 1, -10727>>, <<11367, 11371, 2, 1>>, <<11373, 11373, 1, -10780>>,
    <<11374, 11374, 1, -10749>>, <<11375, 11375, 1, -10783>>, <<11376, 11376, 1, -10782>>, <<11378, 11378, 1, 1>>,
    <<11381, 11381, 1, 1>>, <<11390, 11391, 1, -10815>>, <<11392, 11490, 2, 1>>, <<11499, 11501, 2, 1>>,
    <<11506, 11506, 1, 1>>, <<42560, 42604, 2, 1>>, <<42624, 42650, 2, 1>>, <<42786, 42798, 2, 1>>,
    <<42802, 42862, 2, 1>>, <<42873, 42875, 2, 1>>, <<42877, 42877, 1, -35332>>, <<42878, 42886, 2, 1>>,
    <<42891, 42891, 1, 1>>, <<42893, 42893, 1, -42280>>, <<42896, 42898, 2, 1>>, <<42902, 42920, 2, 1>>,
    <<42922, 42922, 1, -42308>>, <<42923, 42923, 1, -42319>>, <<42924, 42924, 1, -42315>>, <<42925, 42925, 1, -42305>>,
    <<42926, 42926, 1, -42308>>, <<42928, 42928, 1, -42258>>, <<42929, 42929, 1, -42282>>, <<42930, 42930, 1, -42261>>,
    <<42931, 42931, 1, 928>>, <<42932, 42946, 2, 1>>, <<42948, 42948, 1, -48>>, <<42949, 42949, 1, -42307>>,
    <<42950, 42950, 1, -35384>>, <<42951, 42953, 2, 1>>, <<42960, 42960, 1, 1>>, <<42966, 42968, 2, 1>>,
    <<42997, 42997, 1, 1>>, <<65313, 65338, 1, 32>>, <<66560, 66599, 1, 40>>, <<66736, 66771, 1, 40>>,
    <<66928, 66964, 2, 39>>, <<66929, 66937, 2, 39>>, <<66941, 66953, 2, 39>>, <<66957, 66961, 2, 39>>,
    <<66965, 66965, 1, 39>>, <<68736, 68786, 1, 64>>, <<71840, 71871, 1, 32>>, <<93760, 93791, 1, 32>>,
    <<125184, 125217, 1, 34>> >>

\* The cased characters, as <<first, last>>, leaving out those that are also
\* case-ignorable (lower() never asks about them).
CasedRanges == <<
    <<65, 90>>, <<97, 122>>, <<170, 170>>, <<181, 181>>, <<186, 186>>, <<192, 214>>,
    <<216, 246>>, <<248, 442>>, <<444, 447>>, <<452, 659>>, <<661, 687>>, <<880, 883>>,
    <<886, 887>>, <<891, 893>>, <<895, 895>>, <<902, 902>>, <<904, 906>>, <<908, 908>>,
    <<910, 929>>, <<931, 1013>>, <<1015, 1153>>, <<1162, 1327>>, <<1329, 1366>>, <<1376, 1416>>,
    <<4256, 4293>>, <<4295, 4295>>, <<4301, 4301>>, <<4304, 4346>>, <<4349, 4351>>, <<5024, 5109>>,
    <<5112, 5117>>, <<7296, 7304>>, <<7312, 7354>>, <<7357, 7359>>, <<7424, 7467>>, <<7531, 7543>>,
    <<7545, 7578>>, <<7680, 7957>>, <<7960, 7965>>, <<7968, 8005>>, <<8008, 8013>>, <<8016, 8023>>,
    <<8025, 8025>>, <<8027, 8027>>, <<8029, 8029>>, <<8031, 8061>>, <<8064, 8116>>, <<8118, 8124>>,
    <<8126, 8126>>, <<8130, 8132>>, <<8134, 8140>>, <<8144, 8147>>, <<8150, 8155>>, <<8160, 8172>>,
    <<8178, 8180>>, <<8182, 8188>>, <<8450, 8450>>, <<8455, 8455>>, <<8458, 8467>>, <<8469, 8469>>,
    <<8473, 8477>>, <<8484, 8484>>, <<8486, 8486>>, <<8488, 8488>>, <<8490, 8493>>, <<8495, 8500>>,
    <<8505, 8505>>, <<8508, 8511>>, <<8517, 8521>>, <<8526, 8526>>, <<8544, 8575>>, <<8579, 8580>>,
    <<9398, 9449>>, <<11264, 11387>>, <<11390, 11492>>, <<11499, 11502>>, <<11506, 11507>>, <<11520, 11557>>,
    <<11559, 11559>>, <<11565, 11565>>, <<42560, 42605>>, <<42624, 42651>>, <<42786, 42863>>, <<42865, 42887>>,
    <<42891, 42894>>, <<42896, 42954>>, <<42960, 42961>>, <<42963, 42963>>, <<42965, 42969>>, <<42997, 42998>>,
    <<43002, 43002>>, <<43824, 43866>>, <<43872, 43880>>, <<43888, 43967>>, <<64256, 64262>>, <<64275, 64279>>,
    <<65313, 65338>>, <<65345, 65370>>, <<66560, 66639>>, <<66736, 66771>>, <<66776, 66811>>, <<66928, 66938>>,
    <<66940, 66954>>, <<66956, 66962>>, <<66964, 66965>>, <<66967, 66977>>, <<66979, 66993>>, <<66995, 67001>>,
    <<67003, 67004>>, <<68736, 68786>>, <<68800, 68850>>, <<71840, 71903>>, <<93760, 93823>>, <<119808, 119892>>,
    <<119894, 119964>>, <<119966, 119967>>, <<119970, 119970>>, <<119973, 119974>>, <<119977, 119980>>, <<119982, 119993>>,
    <<119995, 119995>>, <<119997, 120003>>, <<120005, 120069>>, <<120071, 120074>>, <<120077, 120084>>, <<120086, 120092>>,
    <<120094, 120121>>, <<120123, 120126>>, <<120128, 120132>>, <<120134, 120134>>, <<120138, 120144>>, <<120146, 120485>>,
    <<120488, 120512>>, <<120514, 120538>>, <<120540, 120570>>, <<120572, 120596>>, <<120598, 120628>>, <<120630, 120654>>,
    <<120656, 120686>>, <<120688, 120712>>, <<120714, 120744>>, <<120746, 120770>>, <<120772, 120779>>, <<122624, 122633>>,
    <<122635, 122654>>, <<125184, 125251>>, <<127280, 127305>>, <<127312, 127337>>, <<127344, 127369>> >>

\* The case-ignorable characters, as <<first, last>>.
CaseIgnorableRanges == <<
    <<39, 39>>, <<46, 46>>, <<58, 58>>, <<94, 94>>, <<96, 96>>, <<168, 168>>,
    <<173, 173>>, <<175, 175>>, <<180, 180>>, <<183, 184>>, <<688, 879>>, <<884, 885>>,
    <<890, 890>>, <<900, 901>>, <<903, 903>>, <<1155, 1161>>, <<1369, 1369>>, <<1375, 1375>>,
    <<1425, 1469>>, <<1471, 1471>>, <<1473, 1474>>, <<1476, 1477>>, <<1479, 1479>>, <<1524, 1524>>,
    <<1536, 1541>>, <<1552, 1562>>, <<1564, 1564>>, <<1600, 1600>>, <<1611, 1631>>, <<1648, 1648>>,
    <<1750, 1757>>, <<1759, 1768>>, <<1770, 1773>>, <<1807, 1807>>, <<1809, 1809>>, <<1840, 1866>>,
    <<1958, 1968>>, <<2027, 2037>>, <<2042, 2042>>, <<2045, 2045>>, <<2070, 2093>>, <<2137, 2139>>,
    <<2184, 2184>>, <<2192, 2193>>, <<2200, 2207>>, <<2249, 2306>>, <<2362, 2362>>, <<2364, 2364>>,
    <<2369, 2376>>, <<2381, 2381>>, <<2385, 2391>>, <<2402, 2403>>, <<2417, 2417>>, <<2433, 2433>>,
    <<2492, 2492>>, <<2497, 2500>>, <<2509, 2509>>, <<2530, 2531>>, <<2558, 2558>>, <<2561, 2562>>,
    <<2620, 2620>>, <<2625, 2626>>, <<2631, 2632>>, <<2635, 2637>>, <<2641, 2641>>, <<2672, 2673>>,
    <<2677, 2677>>, <<2689, 2690>>, <<2748, 2748>>, <<2753, 2757>>, <<2759, 2760>>, <<2765, 2765>>,
    <<2786, 2787>>, <<2810, 2815>>, <<2817, 2817>>, <<2876, 2876>>, <<2879, 2879>>, <<2881, 2884>>,
    <<2893, 2893>>, <<2901, 2902>>, <<2914, 2915>>, <<2946, 2946>>, <<3008, 3008>>, <<3021, 3021>>,
    <<3072, 3072>>, <<3076, 3076>>, <<3132, 3132>>, <<3134, 3136>>, <<3142, 3144>>, <<3146, 3149>>,
    <<3157, 3158>>, <<3170, 3171>>, <<3201, 3201>>, <<3260, 3260>>, <<3263, 3263>>, <<3270, 3270>>,
    <<3276, 3277>>, <<3298, 3299>>, <<3328, 3329>>, <<3387, 3388>>, <<3393, 3396>>, <<3405, 3405>>,
    <<3426, 3427>>, <<3457, 3457>>, <<3530, 3530>>, <<3538, 3540>>, <<3542, 3542>>, <<3633, 3633>>,
    <<3636, 3642>>, <<3654, 3662>>, <<3761, 3761>>, <<3764, 3772>>, <<3782, 3782>>, <<3784, 3789>>,
    <<3864, 3865>>, <<3893, 3893>>, <<3895, 3895>>, <<3897, 3897>>, <<3953, 3966>>, <<3968, 3972>>,
    <<3974, 3975>>, <<3981, 3991>>, <<3993, 4028>>, <<4038, 4038>>, <<4141, 4144>>, <<4146, 4151>>,
    <<4153, 4154>>, <<4157, 4158>>, <<4184, 4185>>, <<4190, 4192>>, <<4209, 4212>>, <<4226, 4226>>,
    <<4229, 4230>>, <<4237, 4237>>, <<4253, 4253>>, <<4348, 4348>>, <<4957, 4959>>, <<5906, 5908>>,
    <<5938, 5939>>, <<5970, 5971>>, <<6002, 6003>>, <<6068, 6069>>, <<6071, 6077>>, <<6086, 6086>>,
    <<6089, 6099>>, <<6103, 6103>>, <<6109, 6109>>, <<6155, 6159>>, <<6211, 6211>>, <<6277, 6278>>,
    <<6313, 6313>>, <<6432, 6434>>, <<6439, 6440>>, <<6450, 6450>>, <<6457, 6459>>, <<6679, 6680>>,
    <<6683, 6683>>, <<6742, 6742>>, <<6744, 6750>>, <<6752, 6752>>, <<6754, 6754>>, <<6757, 6764>>,
    <<6771, 6780>>, <<6783, 6783>>, <<6823, 6823>>, <<6832, 6862>>, <<6912, 6915>>, <<6964, 6964>>,
    <<6966, 6970>>, <<6972, 6972>>, <<6978, 6978>>, <<7019, 7027>>, <<7040, 7041>>, <<7074, 7077>>,
    <<7080, 7081>>, <<7083, 7085>>, <<7142, 7142>>, <<7144, 7145>>, <<7149, 7149>>, <<7151, 7153>>,
    <<7212, 7219>>, <<7222, 7223>>, <<7288, 7293>>, <<7376, 7378>>, <<7380, 7392>>, <<7394, 7400>>,
    <<7405, 7405>>, <<7412, 7412>>, <<7416, 7417>>, <<7468, 7530>>, <<7544, 7544>>, <<7579, 7679>>,
    <<8125, 8125>>, <<8127, 8129>>, <<8141, 8143>>, <<8157, 8159>>, <<8173, 8175>>, <<8189, 8190>>,
    <<8203, 8207>>, <<8216, 8217>>, <<8228, 8228>>, <<8231, 8231>>, <<8234, 8238>>, <<8288, 8292>>,
    <<8294, 8303>>, <<8305, 8305>>, <<8319, 8319>>, <<8336, 8348>>, <<8400, 8432>>, <<11388, 11389>>,
    <<11503, 11505>>, <<11631, 11631>>, <<11647, 11647>>, <<11744, 11775>>, <<11823, 11823>>, <<12293, 12293>>,
    <<12330, 12333>>, <<12337, 12341>>, <<12347, 12347>>, <<12441, 12446>>, <<12540, 12542>>, <<40981, 40981>>,
    <<42232, 42237>>, <<42508, 42508>>, <<42607, 42610>>, <<42612, 42621>>, <<42623, 42623>>, <<42652, 42655>>,
    <<42736, 42737>>, <<42752, 42785>>, <<42864, 42864>>, <<42888, 42890>>, <<42994, 42996>>, <<43000, 43001>>,
    <<43010, 43010>>, <<43014, 43014>>, <<43019, 43019>>, <<43045, 43046>>, <<43052, 43052>>, <<43204, 43205>>,
    <<43232, 43249>>, <<43263, 43263>>, <<43302, 43309>>, <<43335, 43345>>, <<43392, 43394>>, <<43443, 43443>>,
    <<43446, 43449>>, <<43452, 43453>>, <<43471, 43471>>, <<43493, 43494>>, <<43561, 43566>>, <<43569, 43570>>,
    <<43573, 43574>>, <<43587, 43587>>, <<43596, 43596>>, <<43632, 43632>>, <<43644, 43644>>, <<43696, 43696>>,
    <<43698, 43700>>, <<43703, 43704>>, <<43710, 43711>>, <<43713, 43713>>, <<43741, 43741>>, <<43756, 43757>>,
    <<43763, 43764>>, <<43766, 43766>>, <<43867, 43871>>, <<43881, 43883>>, <<44005, 44005>>, <<44008, 44008>>,
    <<44013, 44013>>, <<64286, 64286>>, <<64434, 64450>>, <<65024, 65039>>, <<65043, 65043>>, <<65056, 65071>>,
    <<65106, 65106>>, <<65109, 65109>>, <<65279, 65279>>, <<65287, 65287>>, <<65294, 65294>>, <<65306, 65306>>,
    <<65342, 65342>>, <<65344, 65344>>, <<65392, 65392>>, <<65438, 65439>>, <<65507, 65507>>, <<65529, 65531>>,
    <<66045, 66045>>, <<66272, 66272>>, <<66422, 66426>>, <<67456, 67461>>, <<67463, 67504>>, <<67506, 67514>>,
    <<68097, 68099>>, <<68101, 68102>>, <<68108, 68111>>, <<68152, 68154>>, <<68159, 68159>>, <<68325, 68326>>,
    <<68900, 68903>>, <<69291, 69292>>, <<69446, 69456>>, <<69506, 69509>>, <<69633, 69633>>, <<69688, 69702>>,
    <<69744, 69744>>, <<69747, 69748>>, <<69759, 69761>>, <<69811, 69814>>, <<69817, 69818>>, <<69821, 69821>>,
    <<69826, 69826>>, <<69837, 69837>>, <<69888, 69890>>, <<69927, 69931>>, <<69933, 69940>>, <<70003, 70003>>,
    <<70016, 70017>>, <<70070, 70078>>, <<70089, 70092>>, <<70095, 70095>>, <<70191, 70193>>, <<70196, 70196>>,
    <<70198, 70199>>, <<70206, 70206>>, <<70367, 70367>>, <<70371, 70378>>, <<70400, 70401>>, <<70459, 70460>>,
    <<70464, 70464>>, <<70502, 70508>>, <<70512, 70516>>, <<70712, 70719>>, <<70722, 70724>>, <<70726, 70726>>,
    <<70750, 70750>>, <<70835, 70840>>, <<70842, 70842>>, <<70847, 70848>>, <<70850, 70851>>, <<71090, 71093>>,
    <<71100, 71101>>, <<71103, 71104>>, <<71132, 71133>>, <<71219, 71226>>, <<71229, 71229>>, <<71231, 71232>>,
    <<71339, 71339>>, <<71341, 71341>>, <<71344, 71349>>, <<71351, 71351>>, <<71453, 71455>>, <<71458, 71461>>,
    <<71463, 71467>>, <<71727, 71735>>, <<71737, 71738>>, <<71995, 71996>>, <<71998, 71998>>, <<72003, 72003>>,
    <<72148, 72151>>, <<72154, 72155>>, <<72160, 72160>>, <<72193, 72202>>, <<72243, 72248>>, <<72251, 72254>>,
    <<72263, 72263>>, <<72273, 72278>>, <<72281, 72283>>, <<72330, 72342>>, <<72344, 72345>>, <<72752, 72758>>,
    <<72760, 72765>>, <<72767, 72767>>, <<72850, 72871>>, <<72874, 72880>>, <<72882, 72883>>, <<72885, 72886>>,
    <<73009, 73014>>, <<73018, 73018>>, <<73020, 73021>>, <<73023, 73029>>, <<73031, 73031>>, <<73104, 73105>>,
    <<73109, 73109>>, <<73111, 73111>>, <<73459, 73460>>, <<78896, 78904>>, <<92912, 92916>>, <<92976, 92982>>,
    <<92992, 92995>>, <<94031, 94031>>, <<94095, 94111>>, <<94176, 94177>>, <<94179, 94180>>, <<110576, 110579>>,
    <<110581, 110587>>, <<110589, 110590>>, <<113821, 113822>>, <<113824, 113827>>, <<118528, 118573>>, <<118576, 118598>>,
    <<119143, 119145>>, <<119155, 119170>>, <<119173, 119179>>, <<119210, 119213>>, <<119362, 119364>>, <<121344, 121398>>,
    <<121403, 121452>>, <<121461, 121461>>, <<121476, 121476>>, <<121499, 121503>>, <<121505, 121519>>, <<122880, 122886>>,
    <<122888, 122904>>, <<122907, 122913>>, <<122915, 122916>>, <<122918, 122922>>, <<123184, 123197>>, <<123566, 123566>>,
    <<123628, 123631>>, <<125136, 125142>>, <<125252, 125259>>, <<127995, 127999>>, <<917505, 917505>>, <<917536, 917631>>,
    <<917760, 917999>> >>

InRanges(c, table) ==
    \E k \in 1..Len(table) : table[k][1] <= c /\ c <= table[k][2]

IsCaseIgnorable(c) == InRanges(c, CaseIgnorableRanges)

\* Asked only of characters that are not case-ignorable.
IsCased(c) == InRanges(c, CasedRanges)

CapitalSigma == 931
CapitalIDot == 304

\* The nearest position at or before j (at or after j) whose character is not
\* case-ignorable; 0 (Len(s) + 1) when there is none.
RECURSIVE SkipBack(_, _)
SkipBack(s, j) == IF j >= 1 /\ IsCaseIgnorable(s[j]) THEN SkipBack(s, j - 1) ELSE j

RECURSIVE SkipForward(_, _)
SkipForward(s, j) ==
    IF j <= Len(s) /\ IsCaseIgnorable(s[j]) THEN SkipForward(s, j + 1) ELSE j

\* Whether the capital sigma at position i ends a word: before it, past any
\* case-ignorable characters, stands a cased character, and after it, past any
\* case-ignorable characters, stands none.
FinalSigma(s, i) ==
    LET j == SkipBack(s, i - 1)
        m == SkipForward(s, i + 1)
    IN  /\ j >= 1 /\ IsCased(s[j])
        /\ (m > Len(s) \/ ~ IsCased(s[m]))

\* What str.lower() puts for the character at position i: one character, or
\* two for the capital I with dot above.
LowerAt(s, i) ==
    LET c == s[i]
    IN  IF c < 128 THEN (IF 65 <= c /\ c <= 90 THEN <<c + 32>> ELSE <<c>>)
        ELSE IF c = CapitalSigma THEN (IF FinalSigma(s, i) THEN <<962>> ELSE <<963>>)
        ELSE IF c = CapitalIDot THEN <<105, 775>>
        ELSE IF \E k \in 1..Len(LowerRanges) :
                    /\ LowerRanges[k][1] <= c /\ c <= LowerRanges[k][2]
                    /\ (c - LowerRanges[k][1]) % LowerRanges[k][3] = 0
             THEN LET k == CHOOSE k \in 1..Len(LowerRanges) :
                              /\ LowerRanges[k][1] <= c /\ c <= LowerRanges[k][2]
                              /\ (c - LowerRanges[k][1]) % LowerRanges[k][3] = 0
                  IN  <<c + LowerRanges[k][4]>>
             ELSE <<c>>

RECURSIVE LowerFrom(_, _)
LowerFrom(s, i) == IF i > Len(s) THEN <<>> ELSE LowerAt(s, i) \o LowerFrom(s, i + 1)

\* str.lower()
lower(s) == LowerFrom(s, 1)

RECURSIVE lstrip(_)
lstrip(s) == IF s # <<>> /\ Head(s) \in Whitespace THEN lstrip(Tail(s)) ELSE s

RECURSIVE rstrip(_)
rstrip(s) ==
    IF s # <<>> /\ s[Len(s)] \in Whitespace
    THEN rstrip(SubSeq(s, 1, Len(s) - 1))
    ELSE s

\* str.strip()
strip(s) == rstrip(lstrip(s))

\* str.startswith(p)
startswith(s, p) == Len(s) >= Len(p) /\ SubSeq(s, 1, Len(p)) = p

\* k in s
contains(s, k) ==
    \E i \in 1..(Len(s) - Len(k) + 1) : SubSeq(s, i, i + Len(k) - 1) = k

\* "select"
kw_select == <<115, 101, 108, 101, 99, 116>>
\* "insert"
kw_insert == <<105, 110, 115, 101, 114, 116>>
\* "update"
kw_update == <<117, 112, 100, 97, 116, 101>>
\* "delete"
kw_delete == <<100, 101, 108, 101, 116, 101>>
\* "drop"
kw_drop == <<100, 114, 111, 112>>
\* "alter"
kw_alter == <<97, 108, 116, 101, 114>>
\* "truncate"
kw_truncate == <<116, 114, 117, 110, 99, 97, 116, 101>>
\* "create"
kw_create == <<99, 114, 101, 97, 116, 101>>

unsafe_keywords ==
    {kw_insert, kw_update, kw_delete, kw_drop, kw_alter, kw_truncate, kw_create}

\* A plausible slip: the deny list is matched against the text as given
\* (not lowercased) and the prefix against the text before trimming.
is_safe_query_nocase(s) ==
    /\ startswith(lower(s), kw_select)
    /\ ~ \E k \in unsafe_keywords : contains(s, k)

is_safe_query(s) ==
    LET sql_lower == lower(s)
    IN  /\ startswith(strip(sql_lower), kw_select)
        /\ ~ \E k \in unsafe_keywords : contains(sql_lower, k)

\* The pieces SQL inputs are made of.
Fragments == {
    \* vertical tab, no-break space, line feed
    <<11, 160, 10>>,
    \* select
    <<115, 101, 108, 101, 99, 116>>,
    \* SELECT
    <<83, 69, 76, 69, 67, 84>>,
    \*  * FROM users
    <<32, 42, 32, 70, 82, 79, 77, 32, 117, 115, 101, 114, 115>>,
    \* ; DROP TABLE users
    <<59, 32, 68, 82, 79, 80, 32, 84, 65, 66, 76, 69, 32, 117, 115, 101, 114, 115>>,
    \*  created_at
    <<32, 99, 114, 101, 97, 116, 101, 100, 95, 97, 116>>,
    \* DELETE
    <<68, 69, 76, 69, 84, 69>>,
    \*  INSERT with U+0130 for I, then capital sigma
    <<32, 304, 78, 83, 69, 82, 84, 931>> }

RECURSIVE Concats(_)
Concats(n) ==
    IF n = 0 THEN {<<>>}
    ELSE LET shorter == Concats(n - 1)
         IN  shorter \cup {f \o s : f \in Fragments, s \in shorter}

SqlInputs == Concats(MaxFrags)

----------------------------------------------------------------------------
(* Outcomes *)

UnsafeMsg == "Potentially unsafe query detected. Only SELECT queries are allowed."

\* str(e) of the exceptions the driver raises; Exception() has the empty message.
ExcMsgs == {"", "(2006, 'MySQL server has gone away')"}

DriverOutcomes == {[ok |-> TRUE]} \cup {[ok |-> FALSE, msg |-> m] : m \in ExcMsgs}

NoOutcome == [kind |-> "none"]
Return(v) == [kind |-> "return", value |-> v]
Raise(m) == [kind |-> "raise", msg |-> m]

Entry(call, src, stmt, ok) ==
    [call |-> call, src |-> src, stmt |-> stmt, ok |-> ok, txn |-> txn]

----------------------------------------------------------------------------
(* The server, src/main.py *)

DbName == "college"
TooManyMsg == "(1040, 'Too many connections')"

ServerInit ==
    /\ op = "none" /\ pc = "idle" /\ sql = <<>> /\ safe = FALSE
    /\ conn = "none" /\ cursor = "none" /\ txn = "none" /\ dirty = FALSE
    /\ log = <<>> /\ rows = <<>> /\ caught = "" /\ todo = <<>> /\ schema = <<>>
    /\ pending = NoOutcome /\ result = NoOutcome
    /\ openConns = 0 /\ dbData = 0 /\ dbBefore = 0

\* A handler is entered from the dispatcher with fresh locals.
EnterHandler(name) ==
    /\ pc = "idle"
    /\ op' = name
    /\ dbBefore' = dbData
    /\ UNCHANGED <<conn, cursor, txn, dirty, log, rows, caught, todo, schema,
                   pending, openConns, dbData, clientVars>>

\* A slip: the safety check is made but its answer does not stop the call.
QueryDataCallUngated ==
    /\ pc = "idle"
    /\ \E s \in SqlInputs :
        /\ EnterHandler("query_data")
        /\ sql' = s
        /\ safe' = is_safe_query(s)
        /\ result' = NoOutcome
        /\ pc' = "connect"

\* query_data, lines 111-127: the safety gate, before any database access.
QueryDataCall ==
    /\ pc = "idle"
    /\ \E s \in SqlInputs :
        /\ EnterHandler("query_data")
        /\ sql' = s
        /\ safe' = is_safe_query(s)
        /\ IF ~ safe'
           THEN /\ result' = Return([success |-> FALSE, error |-> UnsafeMsg])
                /\ pc' = "done"
           ELSE /\ result' = NoOutcome
                /\ pc' = "connect"

\* get_schema, lines 41-43.
GetSchemaCall ==
    /\ EnterHandler("get_schema")
    /\ sql' = <<>> /\ safe' = FALSE
    /\ result' = NoOutcome
    /\ pc' = "connect"

\* get_tables, lines 83-85.
GetTablesCall ==
    /\ EnterHandler("get_tables")
    /\ sql' = <<>> /\ safe' = FALSE
    /\ result' = NoOutcome
    /\ pc' = "connect"

\* get_connection: MySQLdb.connect, whose error is printed and raised again.
\* The handlers call it before their try, so the exception leaves the handler.
Connect ==
    /\ pc = "connect"
    /\ \E o \in DriverOutcomes :
        IF o.ok /\ openConns < MaxConns
        THEN /\ conn' = "open"
             /\ openConns' = openConns + 1
             /\ pc' = "cursor"
             /\ UNCHANGED result
        ELSE /\ result' = Raise(IF o.ok THEN TooManyMsg ELSE o.msg)
             /\ pc' = "done"
             /\ UNCHANGED <<conn, openConns>>
    /\ UNCHANGED <<op, sql, safe, cursor, txn, dirty, log, rows, caught, todo,
                   schema, pending, dbData, dbBefore, clientVars>>

\* conn.cursor(MySQLdb.cursors.DictCursor), the first statement of the try.
CreateCursor ==
    /\ pc = "cursor"
    /\ \E o \in DriverOutcomes :
        IF o.ok
        THEN /\ cursor' = "open"
             /\ pc' = IF op = "query_data" THEN "set_ro" ELSE "show"
             /\ UNCHANGED pending
        ELSE /\ pending' = Raise(o.msg)
             /\ pc' = "finally"
             /\ UNCHANGED cursor
    /\ UNCHANGED <<op, sql, safe, conn, txn, dirty, log, rows, caught, todo,
                   schema, result, openConns, dbData, dbBefore, clientVars>>

\* A slip: the statement that makes the next transaction read-only is left out.
SetReadOnlySkipped ==
    /\ pc = "set_ro"
    /\ pc' = "start_txn"
    /\ UNCHANGED <<op, sql, safe, conn, cursor, txn, dirty, log, rows, caught, todo,
                   schema, pending, result, openConns, dbData, dbBefore, clientVars>>

\* cursor.execute("SET TRANSACTION READ ONLY")
SetReadOnly ==
    /\ pc = "set_ro"
    /\ \E o \in DriverOutcomes :
        /\ log' = Append(log, Entry("execute", "fixed", "SET TRANSACTION READ ONLY", o.ok))
        /\ IF o.ok
           THEN /\ txn' = "ro_next"
                /\ pc' = "start_txn"
                /\ UNCHANGED pending
           ELSE /\ pending' = Raise(o.msg)
                /\ pc' = "finally"
                /\ UNCHANGED txn
    /\ UNCHANGED <<op, sql, safe, conn, cursor, dirty, rows, caught, todo,
                   schema, result, openConns, dbData, dbBefore, clientVars>>

\* cursor.execute("START TRANSACTION")
StartTransaction ==
    /\ pc = "start_txn"
    /\ \E o \in DriverOutcomes :
        /\ log' = Append(log, Entry("execute", "fixed", "START TRANSACTION", o.ok))
        /\ IF o.ok
           THEN /\ txn' = IF txn = "ro_next" THEN "ro_active" ELSE "rw_active"
                /\ pc' = "execute"
                /\ UNCHANGED pending
           ELSE /\ pending' = Raise(o.msg)
                /\ pc' = "finally"
                /\ UNCHANGED txn
    /\ UNCHANGED <<op, sql, safe, conn, cursor, dirty, rows, caught, todo,
                   schema, result, openConns, dbData, dbBefore, clientVars>>

\* cursor.execute(sql), inside the inner try.  What the statement does is the
\* database's business: it may read, it may try to write (w), it may fail.  A
\* write inside a READ ONLY transaction is refused by the database.
ExecuteSql ==
    /\ pc = "execute"
    /\ \E o \in DriverOutcomes, w \in BOOLEAN :
        /\ (w /\ txn = "ro_active") => ~ o.ok
        /\ log' = Append(log, Entry("execute", "caller", sql, o.ok))
        /\ dirty' = (dirty \/ (w /\ o.ok))
        /\ IF o.ok
           THEN /\ pc' = "fetch"
                /\ UNCHANGED caught
           ELSE /\ caught' = o.msg
                /\ pc' = "rollback"
    /\ UNCHANGED <<op, sql, safe, conn, cursor, txn, rows, todo,
                   schema, pending, result, openConns, dbData, dbBefore, clientVars>>

\* results = cursor.fetchall()
FetchAll ==
    /\ pc = "fetch"
    /\ \E o \in DriverOutcomes, n \in 0..MaxRows :
        /\ log' = Append(log, Entry("fetchall", "fixed", "", o.ok))
        /\ IF o.ok
           THEN /\ rows' = [i \in 1..n |-> [id |-> i]]
                /\ pc' = "commit"
                /\ UNCHANGED caught
           ELSE /\ n = 0
                /\ caught' = o.msg
                /\ pc' = "rollback"
                /\ UNCHANGED rows
    /\ UNCHANGED <<op, sql, safe, conn, cursor, txn, dirty, todo,
                   schema, pending, result, openConns, dbData, dbBefore, clientVars>>

\* conn.commit() and the success result, lines 140-150.
Commit ==
    /\ pc = "commit"
    /\ \E o \in DriverOutcomes :
        /\ log' = Append(log, Entry("commit", "fixed", "", o.ok))
        /\ IF o.ok
           THEN /\ txn' = "committed"
                /\ dbData' = IF dirty THEN 1 - dbData ELSE dbData
                /\ dirty' = FALSE
                /\ pending' = Return([success |-> TRUE, results |-> rows,
                                      rowCount |-> Len(rows)])
                /\ pc' = "finally"
                /\ UNCHANGED caught
           ELSE /\ caught' = o.msg
                /\ pc' = "rollback"
                /\ UNCHANGED <<txn, dbData, dirty, pending>>
    /\ UNCHANGED <<op, sql, safe, conn, cursor, rows, todo,
                   schema, result, openConns, dbBefore, clientVars>>

\* except Exception as e: conn.rollback() and the failure result, lines 151-157.
\* An exception raised by rollback itself leaves the except clause.
Rollback ==
    /\ pc = "rollback"
    /\ \E o \in DriverOutcomes :
        /\ log' = Append(log, Entry("rollback", "fixed", "", o.ok))
        /\ IF o.ok
           THEN /\ txn' = "rolledback"
                /\ dirty' = FALSE
                /\ pending' = Return([success |-> FALSE, error |-> caught])
           ELSE /\ pending' = Raise(o.msg)
                /\ UNCHANGED <<txn, dirty>>
        /\ pc' = "finally"
    /\ UNCHANGED <<op, sql, safe, conn, cursor, rows, caught, todo,
                   schema, result, openConns, dbData, dbBefore, clientVars>>

\* cursor.execute("SHOW TABLES"); tables = cursor.fetchall(); table_names = ...
\* get_schema lines 50-55 go on to the loop, get_tables lines 91-98 return.
ShowTables ==
    /\ pc = "show"
    /\ \E o \in DriverOutcomes, n \in 0..MaxTables, stage \in {"execute", "fetchall"} :
        /\ log' = IF stage = "execute"
                  THEN Append(log, Entry("execute", "fixed", "SHOW TABLES", o.ok))
                  ELSE log \o <<Entry("execute", "fixed", "SHOW TABLES", TRUE),
                                Entry("fetchall", "fixed", "", o.ok)>>
        /\ IF o.ok
           THEN /\ stage = "fetchall"
                /\ IF op = "get_schema"
                   THEN /\ todo' = [i \in 1..n |-> i]
                        /\ pc' = "describe"
                        /\ UNCHANGED pending
                   ELSE /\ pending' = Return([database |-> DbName,
                                              tables |-> [i \in 1..n |-> i]])
                        /\ pc' = "finally"
                        /\ UNCHANGED todo
           ELSE /\ n = 0
                /\ pending' = Raise(o.msg)
                /\ pc' = "finally"
                /\ UNCHANGED todo
    /\ UNCHANGED <<op, sql, safe, conn, cursor, txn, dirty, rows, caught,
                   schema, result, openConns, dbData, dbBefore, clientVars>>

\* for table_name in table_names: DESCRIBE, fetchall, schema[table_name] = ...;
\* after the last table, the return of lines 73-76.
Describe ==
    /\ pc = "describe"
    /\ IF todo = <<>>
       THEN /\ pending' = Return([database |-> DbName, tables |-> schema])
            /\ pc' = "finally"
            /\ UNCHANGED <<log, todo, schema>>
       ELSE \E o \in DriverOutcomes, stage \in {"execute", "fetchall"} :
            /\ log' = IF stage = "execute"
                      THEN Append(log, Entry("execute", "fixed", "DESCRIBE", o.ok))
                      ELSE log \o <<Entry("execute", "fixed", "DESCRIBE", TRUE),
                                    Entry("fetchall", "fixed", "", o.ok)>>
            /\ IF o.ok
               THEN /\ stage = "fetchall"
                    /\ schema' = Append(schema, Head(todo))
                    /\ todo' = Tail(todo)
                    /\ pc' = "describe"
                    /\ UNCHANGED pending
               ELSE /\ pending' = Raise(o.msg)
                    /\ pc' = "finally"
                    /\ UNCHANGED <<todo, schema>>
    /\ UNCHANGED <<op, sql, safe, conn, cursor, txn, dirty, rows, caught,
                   result, openConns, dbData, dbBefore, clientVars>>

\* finally: if cursor: cursor.close(); conn.close()  (lines 158-161, and the same
\* block at 77-80 and 99-102).  An exception from cursor.close() leaves the block
\* before conn.close() and replaces the pending return value or exception.
\* Closing a connection ends its open transaction without committing.
FinallyClose ==
    /\ pc = "finally"
    /\ \E o \in DriverOutcomes :
        /\ (cursor = "none") => o.ok
        /\ IF o.ok
           THEN /\ cursor' = IF cursor = "open" THEN "closed" ELSE cursor
                /\ conn' = "closed"
                /\ openConns' = openConns - 1
                /\ txn' = IF txn \in {"ro_active", "rw_active"} THEN "rolledback" ELSE txn
                /\ dirty' = FALSE
                /\ result' = pending
           ELSE /\ result' = Raise(o.msg)
                /\ UNCHANGED <<cursor, conn, openConns, txn, dirty>>
    /\ pc' = "done"
    /\ UNCHANGED <<op, sql, safe, log, rows, caught, todo, schema, pending,
                   dbData, dbBefore, clientVars>>

\* The call is over and the server goes back to serving requests (mcp.run()).
\* The handler's frame is dropped; a connection it left open is closed when the
\* interpreter collects the object, or stays open until then.
Finish ==
    /\ pc = "done"
    /\ \E collected \in BOOLEAN :
        openConns' = IF conn = "open" /\ collected THEN openConns - 1 ELSE openConns
    /\ op' = "none" /\ pc' = "idle" /\ sql' = <<>> /\ safe' = FALSE
    /\ conn' = "none" /\ cursor' = "none" /\ txn' = "none" /\ dirty' = FALSE
    /\ log' = <<>> /\ rows' = <<>> /\ caught' = "" /\ todo' = <<>> /\ schema' = <<>>
    /\ pending' = NoOutcome /\ result' = NoOutcome
    /\ UNCHANGED <<dbData, dbBefore, clientVars>>

ServerNext ==
    \/ QueryDataCall
    \/ GetSchemaCall
    \/ GetTablesCall
    \/ Connect
    \/ CreateCursor
    \/ SetReadOnly
    \/ StartTransaction
    \/ ExecuteSql
    \/ FetchAll
    \/ Commit
    \/ Rollback
    \/ ShowTables
    \/ Describe
    \/ FinallyClose
    \/ Finish

----------------------------------------------------------------------------
(* The client, src/test.py: NLtoSQLConverter and its schema cache *)

DbIds == {"mysql://schema", "mysql://tables"}

Coros == 1..NumCoros

SchemaTextA == "{\"database\": \"college\", \"tables\": {\"users\": []}}"
SchemaTextB == "{\"database\": \"college\", \"tables\": {\"users\": [], \"orders\": []}}"
ErrorText == "{\"error\": \"schema unavailable\"}"
BadText == "Internal Server Error"

Texts == {SchemaTextA, SchemaTextB, ErrorText, BadText}

\* json.loads on the texts above: the parsed value, or JSONDecodeError.
JsonValid(text) == text \in {SchemaTextA, SchemaTextB, ErrorText}

JsonLoads(text) ==
    CASE text = SchemaTextA ->
            [database |-> "college", tables |-> [users |-> <<>>]]
      [] text = SchemaTextB ->
            [database |-> "college", tables |-> [users |-> <<>>, orders |-> <<>>]]
      [] text = ErrorText ->
            [error |-> "schema unavailable"]

\* What session.read_resource hands to get_schema as resource_contents: a tag
\* and a list of text contents.
ReadResults ==
    {<<"contents", <<text>>>> : text \in Texts}
        \cup {<<"contents", <<>>>>, <<"meta", <<>>>>}

ReadOutcomes ==
    {[ok |-> TRUE, contents |-> r] : r \in ReadResults}
        \cup {[ok |-> FALSE, msg |-> "Connection closed"]}

extract_resource_content(resource_contents) ==
    IF resource_contents[1] = "contents" /\ resource_contents[2] # <<>>
    THEN LET text_content == resource_contents[2][1]
         IN  IF JsonValid(text_content)
             THEN JsonLoads(text_content)
             ELSE [error |-> "Invalid JSON content", raw |-> text_content]
    ELSE [error |-> "No content found"]

\* "error" in schema_data
HasError(v) == "error" \in DOMAIN v

IdleCo == [pc |-> "idle"]

ClientInit ==
    /\ schema_cache = <<>>
    /\ co = [c \in Coros |-> IdleCo]
    /\ firstRet = [id \in DbIds |-> NoOutcome]

CachePut(id, v) ==
    [k \in DOMAIN schema_cache \cup {id} |-> IF k = id THEN v ELSE schema_cache[k]]

\* The rest of generate_sql once get_schema has returned schema_data (lines
\* 86-110): a schema error is reported, otherwise the model is asked and its
\* answer parsed; any exception ends as "Generation failed".
AfterSchema(schema_data, llm) ==
    IF HasError(schema_data)
    THEN Return([error |-> <<"Schema error: ", schema_data.error>>,
                 sql |-> "", confidence |-> 0])
    ELSE IF llm.ok
         THEN Return([sql |-> "SELECT * FROM users;", confidence |-> 90])
         ELSE Return([error |-> <<"Generation failed: ", llm.msg>>,
                      sql |-> "", confidence |-> 0])

LlmOutcomes == {[ok |-> TRUE], [ok |-> FALSE, msg |-> "Connection error."]}

\* How a call of the given kind ends when get_schema ended with got.
CallEnd(kind, got, llm) ==
    IF kind = "get_schema" THEN got
    ELSE IF got.kind = "raise"
         THEN Return([error |-> <<"Generation failed: ", got.msg>>,
                      sql |-> "", confidence |-> 0])
         ELSE AfterSchema(got.value, llm)

NoteFirst(id, got) ==
    IF got.kind = "return" /\ firstRet[id] = NoOutcome
    THEN [firstRet EXCEPT ![id] = got]
    ELSE firstRet

\* get_schema up to its await (lines 63-65), called directly or from
\* generate_sql (line 84).  On a hit it returns without suspending.
GetSchemaStart(c) ==
    /\ co[c].pc = "idle"
    /\ \E id \in DbIds, kind \in {"get_schema", "generate_sql"}, llm \in LlmOutcomes :
        IF id \in DOMAIN schema_cache
        THEN LET got == Return(schema_cache[id])
             IN  /\ co' = [co EXCEPT ![c] =
                            [pc |-> "done", kind |-> kind, id |-> id, read |-> FALSE,
                             after |-> firstRet[id], got |-> got,
                             ret |-> CallEnd(kind, got, llm)]]
                 /\ firstRet' = NoteFirst(id, got)
                 /\ UNCHANGED schema_cache
        ELSE /\ llm.ok
             /\ co' = [co EXCEPT ![c] =
                        [pc |-> "reading", kind |-> kind, id |-> id, read |-> TRUE,
                         after |-> firstRet[id]]]
             /\ UNCHANGED <<schema_cache, firstRet>>
    /\ UNCHANGED serverVars

\* get_schema after its await (lines 65-68): read_resource has answered or
\* raised; the extracted value is stored and returned.
GetSchemaResume(c) ==
    /\ co[c].pc = "reading"
    /\ \E r \in ReadOutcomes, llm \in LlmOutcomes :
        LET id == co[c].id
            schema_data == extract_resource_content(r.contents)
            got == IF r.ok THEN Return(schema_data) ELSE Raise(r.msg)
        IN  /\ schema_cache' = IF r.ok THEN CachePut(id, schema_data) ELSE schema_cache
            /\ co' = [co EXCEPT ![c] =
                       [pc |-> "done", kind |-> co[c].kind, id |-> id, read |-> TRUE,
                        after |-> co[c].after, got |-> got,
                        ret |-> CallEnd(co[c].kind, got, llm)]]
            /\ firstRet' = NoteFirst(id, got)
    /\ UNCHANGED serverVars

\* The caller has taken the result; the coroutine slot is free again.
CoFinish(c) ==
    /\ co[c].pc = "done"
    /\ co' = [co EXCEPT ![c] = IdleCo]
    /\ UNCHANGED <<schema_cache, firstRet, serverVars>>

ClientNext ==
    \E c \in Coros :
        \/ GetSchemaStart(c)
        \/ GetSchemaResume(c)
        \/ CoFinish(c)

----------------------------------------------------------------------------
(* Specifications *)

Init == ServerInit /\ ClientInit

\* The server handling one request after another.
Spec == Init /\ [][ServerNext]_vars

\* Coroutines of one event loop sharing one NLtoSQLConverter.
ClientSpec == Init /\ [][ClientNext]_vars

\* The client used by one caller at a time, as run_tests uses it: a call starts
\* only when no other call is in flight.
SeqClientNext ==
    \E c \in Coros :
        \/ (\A d \in Coros : co[d].pc = "idle") /\ GetSchemaStart(c)
        \/ GetSchemaResume(c)
        \/ CoFinish(c)

SeqClientSpec == Init /\ [][SeqClientNext]_vars

----------------------------------------------------------------------------
(* Properties of the server *)

QueryDataEnded == op = "query_data" /\ pc = "done"

FixedOk(e, stmt) ==
    e.call = "execute" /\ e.src = "fixed" /\ e.stmt = stmt /\ e.ok

CallerExec(e) == e.call = "execute" /\ e.src = "caller"

\* C1: a statement that is_safe_query rejects ends query_data at once with
\* success=false and the explanatory error; no connection was acquired and no
\* driver call was made.  A caller's statement reaches the database only in a
\* call whose argument it is and which is_safe_query accepted.
C1_UnsafeNeverReachesDatabase ==
    /\ (op = "query_data" /\ ~ is_safe_query(sql)) =>
          /\ pc = "done"
          /\ conn = "none" /\ cursor = "none" /\ log = <<>>
          /\ result = Return([success |-> FALSE, error |-> UnsafeMsg])
    /\ \A i \in 1..Len(log) :
          CallerExec(log[i]) =>
              op = "query_data" /\ is_safe_query(sql) /\ log[i].stmt = sql

\* A statement that begins with select and is rejected for a deny-listed word
\* has been answered.
C1_Witness ==
    /\ QueryDataEnded
    /\ ~ is_safe_query(sql)
    /\ startswith(lower(sql), kw_select)
    /\ result.kind = "return"

\* The classification, stated on the characters of the string alone.  A
\* character stands for a small ASCII letter when it is that letter or its ASCII
\* capital (or, for k, the Kelvin sign); no other character is lowercased to an
\* ASCII letter followed by a letter.
SameLetter(c, k) == c = k \/ c = k - 32 \/ (k = 107 /\ c = 8490)

BeginsWithSelect(s) ==
    \E n \in 0..Len(s) :
        /\ \A i \in 1..n : s[i] \in Whitespace
        /\ Len(s) >= n + Len(kw_select)
        /\ \A j \in 1..Len(kw_select) : SameLetter(s[n + j], kw_select[j])

MentionsKeyword(s) ==
    \E k \in unsafe_keywords, i \in 1..Len(s) :
        /\ i + Len(k) - 1 <= Len(s)
        /\ \A j \in 1..Len(k) : SameLetter(s[i + j - 1], k[j])

\* C2: is_safe_query answers SAFE exactly when the string, after leading
\* whitespace and without regard to case, begins with select and no deny-listed
\* word occurs anywhere in it, without regard to case; the answer is a function
\* of the string, whatever the state of the server.
C2_Classification ==
    op = "query_data" =>
        (safe <=> (BeginsWithSelect(sql) /\ ~ MentionsKeyword(sql)))

\* An accepted statement that needed both the trimming and the lowercasing:
\* it begins with a vertical tab, and a capital I with dot above in it lowers
\* to two characters that do not spell the beginning of insert.
C2_Witness ==
    /\ op = "query_data"
    /\ safe
    /\ sql # <<>> /\ Head(sql) = 11
    /\ sql # lower(sql)
    /\ \E i \in 1..Len(sql) : sql[i] = CapitalIDot

\* C3: the caller's statement is executed only directly after SET TRANSACTION
\* READ ONLY and START TRANSACTION both succeeded on the connection, inside the
\* read-only transaction; success=true is returned only after the statement, the
\* fetch of all rows and the commit all succeeded, in this order.
C3_ReadOnlyTransactionOrder ==
    /\ \A i \in 1..Len(log) :
          CallerExec(log[i]) =>
              /\ i = 3
              /\ FixedOk(log[1], "SET TRANSACTION READ ONLY")
              /\ FixedOk(log[2], "START TRANSACTION")
              /\ log[i].txn = "ro_active"
    /\ \A o \in {pending, result} :
          (op = "query_data" /\ o.kind = "return" /\ o.value.success) =>
              /\ Len(log) = 5
              /\ CallerExec(log[3]) /\ log[3].ok
              /\ log[4].call = "fetchall" /\ log[4].ok
              /\ log[5].call = "commit" /\ log[5].ok
              /\ txn = "committed"
              /\ o.value.results = rows

\* A query that returned rows with success=true.
C3_Witness ==
    /\ QueryDataEnded
    /\ result.kind = "return"
    /\ result.value.success
    /\ result.value.rowCount > 0

\* Some driver call of the inner try (execute, fetchall, commit) raised.
InnerTryRaised ==
    \E i \in 1..Len(log) :
        /\ ~ log[i].ok
        /\ \/ CallerExec(log[i])
           \/ log[i].call \in {"fetchall", "commit"}

\* C4, as claimed: whenever the statement, the fetch or the commit raises, the
\* call ends with the transaction rolled back, returns success=false with the
\* exception's message, and leaves the committed data as it was.
C4_FailureRolledBackAndReported ==
    (QueryDataEnded /\ InnerTryRaised) =>
        /\ txn = "rolledback"
        /\ \E i \in 1..Len(log) : log[i].call = "rollback" /\ log[i].ok
        /\ result = Return([success |-> FALSE, error |-> caught])
        /\ dbData = dbBefore

\* C5, as claimed: when query_data, get_schema or get_tables has ended, however
\* it ended, its connection is closed, and between calls no connection is open.
C5_ConnectionAlwaysReleased ==
    /\ pc = "done" => conn # "open"
    /\ pc \in {"idle", "done"} => openConns = 0

\* C6, as claimed: query_data always ends by returning a structured result,
\* never by raising.
C6_NeverRaises ==
    QueryDataEnded =>
        /\ result.kind = "return"
        /\ "success" \in DOMAIN result.value

\* C7, as claimed: a returned result with success=true has rowCount equal to the
\* number of rows and no error; one with success=false has no rows and a
\* non-empty error.
C7_ResultShape ==
    (QueryDataEnded /\ result.kind = "return") =>
        LET v == result.value
        IN  IF v.success
            THEN /\ v.rowCount = Len(v.results)
                 /\ ("error" \notin DOMAIN v \/ v.error = "")
            ELSE /\ ("results" \notin DOMAIN v \/ v.results = <<>>)
                 /\ "error" \in DOMAIN v
                 /\ v.error # ""

----------------------------------------------------------------------------
(* Properties of the client's schema cache *)

\* C8, as claimed: once a get_schema call for an identifier has returned, the
\* cache keeps that value for the identifier for good, and every call started
\* afterwards returns it without reading the resource.
C8_CacheIdempotent ==
    /\ \A id \in DbIds :
          firstRet[id] # NoOutcome =>
              /\ id \in DOMAIN schema_cache
              /\ Return(schema_cache[id]) = firstRet[id]
    /\ \A c \in Coros :
          (co[c].pc # "idle" /\ co[c].after # NoOutcome) =>
              /\ ~ co[c].read
              /\ co[c].pc = "done" /\ co[c].got = co[c].after

\* C9, as claimed: the cache never holds the outcome of a failed fetch.
C9_FailureNotCached ==
    \A id \in DOMAIN schema_cache : ~ HasError(schema_cache[id])

\* C10, as claimed: misses for one identifier are serialized, so that no two
\* reads of the same resource are in flight together, and calls that missed
\* together return the same value.
C10_MissesSerialized ==
    \A c, d \in Coros :
        (c # d /\ co[c].pc # "idle" /\ co[d].pc # "idle"
              /\ co[c].id = co[d].id /\ co[c].read /\ co[d].read) =>
            /\ co[c].pc = "done" /\ co[d].pc = "done"
            /\ (co[c].got.kind = "return" /\ co[d].got.kind = "return")
                  => co[c].got = co[d].got

====
